---- MODULE Spec2Model ----
(***************************************************************************)
(* A model of the snafu version manager: the persisted list of active     *)
(* versions, the shared scripts directory rebuilt by activate, the pinned *)
(* commands of link_commands / unlink_commands, and the checksum-verified *)
(* saving of a downloaded installer.                                      *)
(*                                                                         *)
(* Text (version names, the content of the versions file) is a sequence   *)
(* of one-character strings, so that '\n'.join and str.split are modelled *)
(* by what they do.  A directory is a function whose DOMAIN is the set of *)
(* entries present in it; an entry name is a record [stem, suffix].       *)
(***************************************************************************)
EXTENDS Integers, Sequences, FiniteSets, TLC

\* ------------------------------------------------------------------ bounds

\* Longest list of versions handed to activate.
MaxVersions == 3

\* Most temporary directories one run of the program creates.
MaxTempDirs == 1

\* Most removals that fail within one unlink_commands.
MaxFailures == 1

\* Longest downloaded payload, in bytes.
MaxPayloadLen == 1

\* Longest list of versions activated while commands are pinned.
MaxBesidePinned == 1

\* Longest list of versions activated one file-system call at a time.
MaxStepped == 1

\* Versions whose pinned commands are linked and unlinked call by call.
MaxPinnedStepped == 1

\* Versions in the list of each of two invocations of activate that run at
\* once.
MaxRacing == 1

\* ------------------------------------------------------------------- text

NoFile == "<absent>"

Whitespace == {" ", "\n", "\t"}

\* A join that puts nothing between the names.
RECURSIVE JoinNoSeparator(_)
JoinNoSeparator(names) ==
    IF names = <<>> THEN <<>>
    ELSE Head(names) \o JoinNoSeparator(Tail(names))

\* '\n'.join(names)
RECURSIVE JoinLines(_)
JoinLines(names) ==
    IF names = <<>> THEN <<>>
    ELSE IF Len(names) = 1 THEN Head(names)
    ELSE Head(names) \o <<"\n">> \o JoinLines(Tail(names))

\* content.split(): the maximal runs of non-whitespace characters, in order.
RECURSIVE SplitFrom(_, _, _)
SplitFrom(content, word, words) ==
    IF content = <<>>
    THEN IF word = <<>> THEN words ELSE Append(words, word)
    ELSE IF Head(content) \in Whitespace
         THEN SplitFrom(Tail(content), <<>>,
                        IF word = <<>> THEN words ELSE Append(words, word))
         ELSE SplitFrom(Tail(content), Append(word, Head(content)), words)

Split(content) == SplitFrom(content, <<>>, <<>>)

\* name.endswith(suffix)
EndsWith(name, suffix) ==
    /\ Len(name) >= Len(suffix)
    /\ SubSeq(name, Len(name) - Len(suffix) + 1, Len(name)) = suffix

\* name.replace('.', '')
StripDots(name) == SelectSeq(name, LAMBDA c : c # ".")

\* The elements of a sequence, and the sequences that list a set once each.
Range(s) == {s[i] : i \in DOMAIN s}

Orderings(S) ==
    {s \in [1..Cardinality(S) -> S] : Range(s) = S}

\* ---------------------------------------------------------------- catalog

N27 == <<"2", ".", "7">>
N36 == <<"3", ".", "6">>
N36x32 == <<"3", ".", "6", "-", "3", "2">>

Suffix32 == <<"-", "3", "2">>

\* The records of the versions directory, one JSON file per name.
VersionsDir ==
    (N27 :> [installer_type |-> "cpython_msi",
             url |-> <<"https:", "www.python.org", "python-2.7.msi">>,
             md5_sum |-> 1, version_info |-> <<2, 7>>])
    @@ (N36 :> [installer_type |-> "cpython",
                url |-> <<"https:", "www.python.org", "python-3.6-amd64.exe">>,
                md5_sum |-> 2, version_info |-> <<3, 6>>])
    @@ (N36x32 :> [installer_type |-> "cpython",
                   url |-> <<"https:", "www.python.org", "python-3.6.exe">>,
                   md5_sum |-> 3, version_info |-> <<3, 6>>])

CatalogNames == DOMAIN VersionsDir

\* A name no file of the versions directory carries.
N99 == <<"9", ".", "9">>

\* A lookup that builds a CPythonVersion whatever the installer type.
InstallerClassOne(installer_type) == "CPythonVersion"

InstallerClass(installer_type) ==
    CASE installer_type = "cpython_msi" -> "CPythonMSIVersion"
      [] installer_type = "cpython" -> "CPythonVersion"

\* versions.get_version(name): the exact lookup; "VersionNotFoundError" when
\* the versions directory holds no file of that name.
VersionsGetVersion(name) ==
    IF name \notin DOMAIN VersionsDir
    THEN [raised |-> "VersionNotFoundError", name |-> name, klass |-> "none"]
    ELSE [raised |-> "none", name |-> name,
          klass |-> InstallerClass(VersionsDir[name].installer_type)]

\* versions.get_version(name, force_32=...): the lookup operations.get_version
\* asks for.  With force_32 set, a name without the -32 suffix whose
\* <name>-32 record exists resolves to that record.
VersionsGetVersionFor(name, force_32) ==
    IF force_32 /\ ~EndsWith(name, Suffix32)
       /\ (name \o Suffix32) \in DOMAIN VersionsDir
    THEN VersionsGetVersion(name \o Suffix32)
    ELSE VersionsGetVersion(name)

\* ------------------------------------------------------------ directories

EmptyDir == [n \in {} |-> NoFile]

Entry(stem, suffix) == [stem |-> stem, suffix |-> suffix]

\* path.with_suffix(suffix)
WithSuffix(entry, suffix) == [entry EXCEPT !.suffix = suffix]

\* A directory together with what the running operation has done to it so
\* far: `log` lists its writes and its safe_unlink calls, in order.
Started(dir) == [dir |-> dir, log |-> <<>>]

Exists(fs, entry) == entry \in DOMAIN fs.dir

Without(dir, entries) == [n \in DOMAIN dir \ entries |-> dir[n]]

\* write_text / copy2: create or replace one entry.
WriteEntry(fs, entry, content) ==
    [fs EXCEPT !.dir = (entry :> content) @@ @,
               !.log = Append(@, [act |-> "write", entry |-> entry,
                                  content |-> content])]

\* p.unlink() of an entry that is present.
UnlinkEntry(fs, entry) ==
    [fs EXCEPT !.dir = Without(@, {entry}),
               !.log = Append(@, [act |-> "unlink", entry |-> entry,
                                  content |-> fs.dir[entry]])]

\* p.unlink() raising OSError: the entry stays.
UnlinkFails(fs, entry) ==
    [fs EXCEPT !.log = Append(@, [act |-> "unlink failed", entry |-> entry,
                                  content |-> fs.dir[entry]])]

\* What a published entry holds: a copy of the generic shim executable, a
\* sidecar holding the path of its target, or a copy of a source file.
DispatcherCopy == [kind |-> "dispatcher", of |-> <<"shims", "generic.exe">>]

Sidecar(target) == [kind |-> "sidecar", of |-> target]

FileCopy(source) == [kind |-> "file", of |-> source]

\* ---------------------------------------------------------- installations

\* Version.get_install_dir_path(): Python<name without dots>.
InstallDirPath(name) == <<"Programs", "Python", <<"Python">> \o StripDots(name)>>

\* str(n) of a one-digit number, as '{}'.format(n) writes it.
Digits == <<"0", "1", "2", "3", "4", "5", "6", "7", "8", "9">>

Str(n) == <<Digits[n + 1]>>

MajorVersion(name) == VersionsDir[name].version_info[1]

\* The Scripts directory of each installation: whether it is a directory,
\* and its entries with the kind of each.
ScriptsOf ==
    (N27 :> [is_dir |-> FALSE, entries |-> EmptyDir])
    @@ (N36 :> [is_dir |-> TRUE, entries |->
                   ( Entry(<<"pip">>, ".exe") :> "file"
                  @@ Entry(<<"pip", "3">>, ".exe") :> "file"
                  @@ Entry(<<"easy_install">>, ".exe") :> "file"
                  @@ Entry(<<"foo">>, ".exe") :> "file"
                  @@ Entry(<<"__pycache__">>, "") :> "dir" )])
    @@ (N36x32 :> [is_dir |-> TRUE, entries |->
                   ( Entry(<<"pip">>, ".exe") :> "file"
                  @@ Entry(<<"pip", "3">>, ".exe") :> "file"
                  @@ Entry(<<"foo">>, ".exe") :> "file"
                  @@ Entry(<<"python", "3">>, ".exe") :> "file"
                  @@ Entry(<<"bar">>, ".py") :> "file" )])

\* version.get_installation(): the paths derived from the install directory.
GetInstallation(name) ==
    [python |-> Append(InstallDirPath(name), "python.exe"),
     pip |-> Append(Append(InstallDirPath(name), "Scripts"), "pip.exe"),
     scripts_dir |-> Append(InstallDirPath(name), "Scripts")]

\* The pinned commands a version declares, in the cmd directory.
PythonCommands(name) == <<Entry(<<"python">> \o name, ".exe")>>

PipCommands(name) == <<Entry(<<"pip">> \o name, ".exe")>>

\* --------------------------------------------------------- shim publisher

\* publish_shim copying the dispatcher without writing its sidecar.
PublishShimNoSidecar(fs, target, content, overwrite) ==
    IF ~overwrite /\ Exists(fs, target)
    THEN fs
    ELSE WriteEntry(fs, target, DispatcherCopy)

\* publish_shim copying the dispatcher before it writes the sidecar.
PublishShimDispatcherFirst(fs, target, content, overwrite) ==
    IF ~overwrite /\ Exists(fs, target)
    THEN fs
    ELSE WriteEntry(WriteEntry(fs, target, DispatcherCopy),
                    WithSuffix(target, ".shim"), Sidecar(content))

PublishShim(fs, target, content, overwrite) ==
    IF ~overwrite /\ Exists(fs, target)
    THEN fs
    ELSE WriteEntry(WriteEntry(fs, WithSuffix(target, ".shim"), Sidecar(content)),
                    target, DispatcherCopy)

\* publish_file without the existence gate.
PublishFileAlways(fs, source, target, overwrite) ==
    WriteEntry(fs, target, FileCopy(source))

PublishFile(fs, source, target, overwrite) ==
    IF ~overwrite /\ Exists(fs, target)
    THEN fs
    ELSE WriteEntry(fs, target, FileCopy(source))

PublishPythonCommand(fs, installation, target, overwrite) ==
    PublishShim(fs, target, installation.python, overwrite)

PublishPipCommand(fs, installation, target, overwrite) ==
    PublishFile(fs, installation.pip, target, overwrite)

\* The loop over the Scripts directory publishing pip and easy_install too.
RECURSIVE PublishScriptsUnversionedToo(_, _, _, _)
PublishScriptsUnversionedToo(fs, name, todo, overwrite) ==
    IF todo = {} THEN fs
    ELSE LET path == CHOOSE p \in todo : TRUE
             rest == todo \ {path}
         IN  IF ScriptsOf[name].entries[path] # "file"
             THEN PublishScriptsUnversionedToo(fs, name, rest, overwrite)
             ELSE PublishScriptsUnversionedToo(
                      PublishFile(fs,
                                  Append(GetInstallation(name).scripts_dir, path),
                                  path, overwrite),
                      name, rest, overwrite)

\* The loop over scripts_dir.iterdir(): `todo` is what is left to visit.
RECURSIVE PublishScripts(_, _, _, _)
PublishScripts(fs, name, todo, overwrite) ==
    IF todo = {} THEN fs
    ELSE LET path == CHOOSE p \in todo : TRUE
             rest == todo \ {path}
         IN  IF path.stem \in {<<"easy_install">>, <<"pip">>}
             THEN PublishScripts(fs, name, rest, overwrite)
             ELSE IF ScriptsOf[name].entries[path] # "file"
             THEN PublishScripts(fs, name, rest, overwrite)
             ELSE PublishScripts(
                      PublishFile(fs,
                                  Append(GetInstallation(name).scripts_dir, path),
                                  path, overwrite),
                      name, rest, overwrite)

PublishVersionScripts(fs, version, overwrite) ==
    LET name == version.name
        installation == GetInstallation(name)
        target == Entry(<<"python">> \o Str(MajorVersion(name)), ".exe")
        published == PublishPythonCommand(fs, installation, target, overwrite)
    IN  IF ScriptsOf[name].is_dir
        THEN PublishScripts(published, name, DOMAIN ScriptsOf[name].entries,
                            overwrite)
        ELSE published

\* The loop of activate over the versions, in order.
RECURSIVE PublishAll(_, _)
PublishAll(fs, versions) ==
    IF versions = <<>> THEN fs
    ELSE PublishAll(PublishVersionScripts(fs, Head(versions), FALSE),
                    Tail(versions))

\* -------------------------------------------------------------- installer

\* The bytes a download can deliver.
Payloads == UNION {[1..n -> {0, 1}] : n \in 0..MaxPayloadLen}

\* hashlib.md5(data).hexdigest(), as a digest: a deterministic function of
\* the bytes into a finite range, in which distinct payloads can collide.
RECURSIVE Md5From(_, _)
Md5From(h, data) ==
    IF data = <<>> THEN h
    ELSE Md5From((3 * h + Head(data) + 1) % 5, Tail(data))

Md5(data) == Md5From(0, data)

\* version.url.rsplit('/', 1)[-1]
InstallerName(name) == VersionsDir[name].url[Len(VersionsDir[name].url)]

\* save_installer writing the payload before it compares the checksums.
SaveInstallerWriteFirst(temp, name, data, into_path) ==
    [raised |-> IF Md5(data) # VersionsDir[name].md5_sum
                THEN "DownloadIntegrityError" ELSE "none",
     temp |-> [temp EXCEPT ![into_path[1]] =
                  [f \in DOMAIN @ \cup {into_path[2]} |->
                      IF f = into_path[2] THEN data ELSE @[f]]]]

\* Version.save_installer(data, into_path) on the temporary storage `temp`
\* (directory id -> its files); into_path is <<directory id, file name>>.
SaveInstaller(temp, name, data, into_path) ==
    IF Md5(data) # VersionsDir[name].md5_sum
    THEN [raised |-> "DownloadIntegrityError", temp |-> temp]
    ELSE [raised |-> "none",
          temp |-> [temp EXCEPT ![into_path[1]] =
                       [f \in DOMAIN @ \cup {into_path[2]} |->
                           IF f = into_path[2] THEN data ELSE @[f]]]]

\* ------------------------------------------------------------------ state

VARIABLES
    scripts,        \* the shared scripts directory
    cmd,            \* the cmd directory, where pinned commands are published
    versionsFile,   \* the file of active version names: [exists, content]
    host64,         \* metadata.can_install_64bit() on this host
    temp,           \* temporary directories: id -> its files
    atexit,         \* ids of temporary directories registered for removal
    removalFailed,  \* a "Failed to remove" line has been written
    last,           \* the operation that ran last: arguments, outcome, calls
    job,            \* the operation in progress, file-system step by step
    racing          \* two invocations of activate in progress at once

vars ==
    <<scripts, cmd, versionsFile, host64, temp, atexit, removalFailed, last,
      job, racing>>

\* The version objects callers hold: what get_version returns for a name.
Versions == {VersionsGetVersion(n) : n \in CatalogNames}

ListsUpTo(n) == UNION {[1..k -> Versions] : k \in 0..n}

VersionLists == ListsUpTo(MaxVersions)

Ran == [op |-> "none", outcome |-> "ok", versions |-> <<>>, allow_empty |-> FALSE,
        remove |-> {}, version |-> <<>>, log |-> <<>>, again |-> FALSE,
        data |-> <<>>, path |-> <<0, "">>, cleaned |-> {},
        resolved |-> [name |-> <<>>, klass |-> "none", note |-> FALSE],
        check |-> [installed |-> FALSE, is_installed |-> FALSE,
                   on_exit |-> FALSE, message |-> "", called |-> FALSE]]

\* No operation in progress.
Idle == [op |-> "none", phase |-> "idle", steps |-> <<>>, versions |-> <<>>,
         text |-> <<>>, outcome |-> "ok", failed |-> 0]

\* An invocation of activate that has not begun.
NotStarted == [phase |-> "idle", outcome |-> "none", versions |-> <<>>,
               listed |-> {}, plan |-> <<>>, writes |-> <<>>,
               overlapped |-> FALSE]

Init ==
    /\ scripts = EmptyDir
    /\ cmd = EmptyDir
    /\ versionsFile = [exists |-> FALSE, content |-> <<>>]
    /\ host64 \in BOOLEAN
    /\ temp = [d \in {} |-> EmptyDir]
    /\ atexit = {}
    /\ removalFailed = FALSE
    /\ last = Ran
    /\ job = Idle
    /\ racing = [p \in 1..2 |-> NotStarted]

\* -------------------------------------------------------------- reconciler

\* get_active_names(): () when the file is missing, else the words of it.
GetActiveNames(file) ==
    IF ~file.exists THEN <<>> ELSE Split(file.content)

\* operations.get_version(name)
\* get_version without the note about the selected version.
OperationsGetVersionNoNote(name, can_install_64bit) ==
    LET version == VersionsGetVersionFor(name, ~can_install_64bit)
    IN  IF version.raised = "VersionNotFoundError"
        THEN [outcome |-> "exit 1", version |-> version, note |-> FALSE]
        ELSE [outcome |-> "ok", version |-> version, note |-> FALSE]

\* get_version(name): the version selected, whether the note 'Selecting ...
\* instead of ...' is echoed, or exit(1) after 'No such version'.
OperationsGetVersion(name, can_install_64bit) ==
    LET version == VersionsGetVersionFor(name, ~can_install_64bit)
    IN  IF version.raised = "VersionNotFoundError"
        THEN [outcome |-> "exit 1", version |-> version, note |-> FALSE]
        ELSE [outcome |-> "ok", version |-> version,
              note |-> version.name # name]

\* A rebuild that removes nothing first.
RemoveNothing(fs) == fs

\* A teardown that removes the dispatcher copies only: sidecars and copied
\* files stay.
RemoveOldDispatchers(fs) ==
    [fs EXCEPT !.dir = Without(@, {p \in DOMAIN fs.dir :
                                       fs.dir[p].kind = "dispatcher"})]

\* for p in scripts_dir.iterdir(): p.unlink()
RemoveOld(fs) ==
    [fs EXCEPT !.dir = Without(@, DOMAIN fs.dir)]

\* Writing each name without its dots, as install directories are named.
VersionsTextStripped(versions) ==
    JoinLines([i \in DOMAIN versions |-> StripDots(versions[i].name)])

\* '\n'.join(version.name for version in versions)
VersionsText(versions) ==
    JoinLines([i \in DOMAIN versions |-> versions[i].name])

\* activate adding the names to the versions file instead of replacing it.
ActivateRunAppending(dir, file, versions, allow_empty) ==
    IF ~allow_empty /\ versions = <<>>
    THEN [outcome |-> "exit 1", dir |-> dir, file |-> file, log |-> <<>>]
    ELSE LET populated == PublishAll(RemoveOld(Started(dir)), versions)
         IN  [outcome |-> "ok", dir |-> populated.dir,
              file |-> [exists |-> TRUE,
                        content |-> file.content \o <<"\n">>
                                        \o VersionsText(versions)],
              log |-> populated.log]

\* activate removing the old entries before it looks at the list.
ActivateRunTeardownFirst(dir, file, versions, allow_empty) ==
    IF ~allow_empty /\ versions = <<>>
    THEN [outcome |-> "exit 1", dir |-> RemoveOld(Started(dir)).dir,
          file |-> file, log |-> <<>>]
    ELSE LET populated == PublishAll(RemoveOld(Started(dir)), versions)
         IN  [outcome |-> "ok", dir |-> populated.dir,
              file |-> [exists |-> TRUE, content |-> VersionsText(versions)],
              log |-> populated.log]

\* activate(versions, allow_empty=...) on a scripts directory and a versions
\* file: the outcome and what it leaves.
ActivateRun(dir, file, versions, allow_empty) ==
    IF ~allow_empty /\ versions = <<>>
    THEN [outcome |-> "exit 1", dir |-> dir, file |-> file, log |-> <<>>]
    ELSE LET populated == PublishAll(RemoveOld(Started(dir)), versions)
         IN  [outcome |-> "ok", dir |-> populated.dir,
              file |-> [exists |-> TRUE, content |-> VersionsText(versions)],
              log |-> populated.log]

\* activate tearing down the pinned commands together with the scripts
\* directory, as if both were one directory.
ActivateOverPinned(versions, allow_empty) ==
    \E run \in {ActivateRun(scripts, versionsFile, versions, allow_empty)} :
        /\ scripts' = run.dir
        /\ versionsFile' = run.file
        /\ cmd' = IF run.outcome = "ok" THEN RemoveOld(Started(cmd)).dir
                  ELSE cmd
        /\ last' = [Ran EXCEPT !.op = "activate", !.outcome = run.outcome,
                               !.versions = versions,
                               !.allow_empty = allow_empty, !.log = run.log,
                               !.again = /\ last.op = "activate"
                                         /\ last.outcome = "ok"
                                         /\ last.versions = versions
                                         /\ last.allow_empty = allow_empty]
        /\ UNCHANGED <<host64, job, temp, atexit, removalFailed, racing>>

Activate(versions, allow_empty) ==
    \E run \in {ActivateRun(scripts, versionsFile, versions, allow_empty)} :
        /\ scripts' = run.dir
        /\ versionsFile' = run.file
        /\ last' = [Ran EXCEPT !.op = "activate", !.outcome = run.outcome,
                               !.versions = versions,
                               !.allow_empty = allow_empty, !.log = run.log,
                               !.again = /\ last.op = "activate"
                                         /\ last.outcome = "ok"
                                         /\ last.versions = versions
                                         /\ last.allow_empty = allow_empty]
        /\ UNCHANGED <<cmd, host64, job, temp, atexit, removalFailed, racing>>

\* The names update_active_versions keeps: `order` is the order in which
\* the set of current names is listed.
KeptNames(order, remove) ==
    SelectSeq(order, LAMBDA n : n \notin {v.name : v \in remove})

\* update_active_versions without the comparison of the lengths.
UpdateRunAlways(dir, file, can_install_64bit, order, remove) ==
    LET active_names == KeptNames(order, remove)
        versions == [i \in DOMAIN active_names |->
                        OperationsGetVersion(active_names[i],
                                             can_install_64bit).version]
        run == ActivateRun(dir, file, versions, TRUE)
    IN  [outcome |-> "activated", dir |-> run.dir, file |-> run.file,
         log |-> run.log, versions |-> versions]

\* update_active_versions(remove=...), the set of current names listed in
\* `order`.
UpdateRun(dir, file, can_install_64bit, order, remove) ==
    LET current_active_names == Range(GetActiveNames(file))
        active_names == KeptNames(order, remove)
        got == [i \in DOMAIN active_names |->
                   OperationsGetVersion(active_names[i], can_install_64bit)]
    IN  IF Cardinality(current_active_names) = Len(active_names)
        THEN [outcome |-> "unchanged", dir |-> dir, file |-> file,
              log |-> <<>>, versions |-> <<>>]
        ELSE IF \E i \in DOMAIN got : got[i].outcome = "exit 1"
        THEN [outcome |-> "exit 1", dir |-> dir, file |-> file,
              log |-> <<>>, versions |-> <<>>]
        ELSE LET versions == [i \in DOMAIN got |-> got[i].version]
                 run == ActivateRun(dir, file, versions, TRUE)
             IN  [outcome |-> "activated", dir |-> run.dir, file |-> run.file,
                  log |-> run.log, versions |-> versions]

UpdateActiveVersions(remove) ==
    \E order \in Orderings(Range(GetActiveNames(versionsFile))) :
        \E run \in {UpdateRun(scripts, versionsFile, host64, order, remove)} :
            /\ scripts' = run.dir
            /\ versionsFile' = run.file
            /\ last' = [Ran EXCEPT !.op = "update", !.outcome = run.outcome,
                                   !.versions = run.versions,
                                   !.remove = {v.name : v \in remove},
                                   !.log = run.log]
            /\ UNCHANGED <<cmd, host64, job, temp, atexit, removalFailed,
                           racing>>

\* ------------------------------------------------- resolution and checks

\* A direct call of operations.get_version(name).
GetVersionCall(name) ==
    \E got \in {OperationsGetVersion(name, host64)} :
        /\ last' = [Ran EXCEPT !.op = "get_version", !.outcome = got.outcome,
                               !.version = name,
                               !.resolved = [name |-> got.version.name,
                                             klass |-> got.version.klass,
                                             note |-> got.note]]
        /\ UNCHANGED <<scripts, cmd, versionsFile, host64, job, temp, atexit,
                       removalFailed, racing>>

\* A direct call of versions.get_version(name).
VersionsLookup(name) ==
    \E got \in {VersionsGetVersion(name)} :
        /\ last' = [Ran EXCEPT !.op = "lookup", !.outcome = got.raised,
                               !.version = name,
                               !.resolved = [name |-> got.name,
                                             klass |-> got.klass,
                                             note |-> FALSE]]
        /\ UNCHANGED <<scripts, cmd, versionsFile, host64, job, temp, atexit,
                       removalFailed, racing>>

\* check_installed that exits without running the callback.
CheckInstalledRunNoCallback(is_installed, installed, on_exit) ==
    IF is_installed = installed
    THEN [outcome |-> "ok", message |-> "", called |-> FALSE]
    ELSE [outcome |-> "exit 1",
          message |-> IF installed THEN "is not installed."
                      ELSE "is already installed.",
          called |-> FALSE]

\* check_installed(version, installed, on_exit=...): `is_installed` is what
\* version.is_installed() answers, `on_exit` whether a callback is given.
CheckInstalledRun(is_installed, installed, on_exit) ==
    IF is_installed = installed
    THEN [outcome |-> "ok", message |-> "", called |-> FALSE]
    ELSE [outcome |-> "exit 1",
          message |-> IF installed THEN "is not installed."
                      ELSE "is already installed.",
          called |-> on_exit]

CheckInstalled(version, installed, is_installed, on_exit) ==
    \E run \in {CheckInstalledRun(is_installed, installed, on_exit)} :
        /\ last' = [Ran EXCEPT !.op = "check_installed",
                               !.outcome = run.outcome,
                               !.version = version.name,
                               !.check = [installed |-> installed,
                                          is_installed |-> is_installed,
                                          on_exit |-> on_exit,
                                          message |-> run.message,
                                          called |-> run.called]]
        /\ UNCHANGED <<scripts, cmd, versionsFile, host64, job, temp, atexit,
                       removalFailed, racing>>

\* ----------------------------------------------------------- pinned linker

\* Whether the pip executable link_commands copies is there to copy.
PipExists(name) ==
    /\ ScriptsOf[name].is_dir
    /\ Entry(<<"pip">>, ".exe") \in DOMAIN ScriptsOf[name].entries

RECURSIVE LinkPython(_, _, _)
LinkPython(fs, installation, paths) ==
    IF paths = <<>> THEN fs
    ELSE LinkPython(PublishPythonCommand(fs, installation, Head(paths), TRUE),
                    installation, Tail(paths))

RECURSIVE LinkPip(_, _, _)
LinkPip(fs, installation, paths) ==
    IF paths = <<>> THEN fs
    ELSE LinkPip(PublishPipCommand(fs, installation, Head(paths), TRUE),
                 installation, Tail(paths))

\* link_commands(version): copy2 raises when the pip executable is missing.
LinkRun(dir, version) ==
    LET installation == GetInstallation(version.name)
        pythons == LinkPython(Started(dir), installation,
                              PythonCommands(version.name))
    IN  IF PipCommands(version.name) # <<>> /\ ~PipExists(version.name)
        THEN [outcome |-> "raised FileNotFoundError", dir |-> pythons.dir,
              log |-> pythons.log]
        ELSE LET pips == LinkPip(pythons, installation,
                                 PipCommands(version.name))
             IN  [outcome |-> "ok", dir |-> pips.dir, log |-> pips.log]

LinkCommands(version) ==
    \E run \in {LinkRun(cmd, version)} :
        /\ cmd' = run.dir
        /\ last' = [Ran EXCEPT !.op = "link", !.outcome = run.outcome,
                               !.version = version.name, !.log = run.log]
        /\ UNCHANGED <<scripts, versionsFile, host64, job, temp, atexit,
                       removalFailed, racing>>

\* safe_unlink(p): `failing` are the entries whose unlink raises OSError.
SafeUnlink(fs, p, failing) ==
    IF Exists(fs, p)
    THEN IF p \in failing THEN UnlinkFails(fs, p) ELSE UnlinkEntry(fs, p)
    ELSE fs

\* unlink_commands giving up at the first removal that fails.
RECURSIVE UnlinkAllUntilFailure(_, _, _)
UnlinkAllUntilFailure(fs, paths, failing) ==
    IF paths = <<>> THEN fs
    ELSE LET p == Head(paths)
             sidecar == WithSuffix(p, ".shim")
             first == SafeUnlink(fs, p, failing)
         IN  IF Exists(fs, p) /\ p \in failing THEN first
             ELSE IF Exists(first, sidecar) /\ sidecar \in failing
             THEN SafeUnlink(first, sidecar, failing)
             ELSE UnlinkAllUntilFailure(SafeUnlink(first, sidecar, failing),
                                        Tail(paths), failing)

\* unlink_commands(version): each declared command, then its sidecar.
RECURSIVE UnlinkAll(_, _, _)
UnlinkAll(fs, paths, failing) ==
    IF paths = <<>> THEN fs
    ELSE UnlinkAll(SafeUnlink(SafeUnlink(fs, Head(paths), failing),
                              WithSuffix(Head(paths), ".shim"), failing),
                   Tail(paths), failing)

UnlinkRun(dir, version, failing) ==
    UnlinkAll(Started(dir),
              PythonCommands(version.name) \o PipCommands(version.name),
              failing)

\* The entries unlink_commands(version) tries to remove.
Declared(version) ==
    LET paths == PythonCommands(version.name) \o PipCommands(version.name)
    IN  Range(paths) \cup {WithSuffix(p, ".shim") : p \in Range(paths)}

UnlinkCommands(version) ==
    \E failing \in SUBSET (Declared(version) \cap DOMAIN cmd) :
        /\ Cardinality(failing) <= MaxFailures
        /\ \E run \in {UnlinkRun(cmd, version, failing)} :
               /\ cmd' = run.dir
               /\ removalFailed' = (removalFailed \/ failing # {})
               /\ last' = [Ran EXCEPT !.op = "unlink", !.version = version.name,
                                      !.log = run.log]
        /\ UNCHANGED <<scripts, versionsFile, host64, job, temp, atexit,
                       racing>>

\* ------------------------------------------------------- installer download

\* What is at a path of the temporary storage.
FileAt(storage, path) ==
    IF path[1] \in DOMAIN storage /\ path[2] \in DOMAIN storage[path[1]]
    THEN <<"file", storage[path[1]][path[2]]>>
    ELSE <<"absent">>

\* A direct call of version.save_installer(data, into_path).
SaveInstallerCall(version, data, into_path) ==
    \E saved \in {SaveInstaller(temp, version.name, data, into_path)} :
        /\ temp' = saved.temp
        /\ last' = [Ran EXCEPT !.op = "save", !.outcome = saved.raised,
                               !.version = version.name, !.data = data,
                               !.path = into_path]
        /\ UNCHANGED <<scripts, cmd, versionsFile, host64, job, atexit,
                       removalFailed, racing>>

\* download_installer registering the removal only once the installer is
\* saved.
DownloadInstallerRegisterLate(version, status_ok, data, d) ==
    IF ~status_ok
    THEN /\ last' = [Ran EXCEPT !.op = "download", !.outcome = "HTTPError",
                                !.version = version.name]
         /\ UNCHANGED <<scripts, cmd, versionsFile, host64, job, temp, atexit,
                        removalFailed, racing>>
    ELSE LET installer_path == <<d, InstallerName(version.name)>>
             made == [e \in DOMAIN temp \cup {d} |->
                         IF e = d THEN EmptyDir ELSE temp[e]]
         IN  \E saved \in {SaveInstaller(made, version.name, data,
                                          installer_path)} :
             /\ d \notin DOMAIN temp
             /\ temp' = saved.temp
             /\ atexit' = IF saved.raised = "none" THEN atexit \cup {d}
                          ELSE atexit
             /\ last' = [Ran EXCEPT !.op = "download",
                                    !.outcome = saved.raised,
                                    !.version = version.name, !.data = data,
                                    !.path = installer_path]
             /\ UNCHANGED <<scripts, cmd, versionsFile, host64, job, removalFailed,
                            racing>>

\* download_installer(version): `status_ok` is what raise_for_status finds,
\* `data` the bytes received, `d` the directory mkdtemp creates.
DownloadInstaller(version, status_ok, data, d) ==
    IF ~status_ok
    THEN /\ last' = [Ran EXCEPT !.op = "download", !.outcome = "HTTPError",
                                !.version = version.name]
         /\ UNCHANGED <<scripts, cmd, versionsFile, host64, job, temp, atexit,
                        removalFailed, racing>>
    ELSE LET installer_path == <<d, InstallerName(version.name)>>
             made == [e \in DOMAIN temp \cup {d} |->
                         IF e = d THEN EmptyDir ELSE temp[e]]
         IN  \E saved \in {SaveInstaller(made, version.name, data,
                                          installer_path)} :
             /\ d \notin DOMAIN temp
             /\ temp' = saved.temp
             /\ atexit' = atexit \cup {d}
             /\ last' = [Ran EXCEPT !.op = "download",
                                    !.outcome = saved.raised,
                                    !.version = version.name, !.data = data,
                                    !.path = installer_path]
             /\ UNCHANGED <<scripts, cmd, versionsFile, host64, job, removalFailed,
                            racing>>

\* The step a caller takes with a downloaded installer: the installer
\* subprocess ends with status 0 or not; the temporary storage is not its
\* business.
InstallStep(version, path, ok) ==
    /\ FileAt(temp, path) # <<"absent">>
    /\ last' = [Ran EXCEPT !.op = "install",
                           !.outcome = IF ok THEN "ok" ELSE "CalledProcessError",
                           !.version = version.name, !.path = path]
    /\ UNCHANGED <<scripts, cmd, versionsFile, host64, job, temp, atexit,
                   removalFailed, racing>>

\* The end of the process: the registered shutil.rmtree calls run.
ProcessExit ==
    /\ temp' = [d \in DOMAIN temp \ atexit |-> temp[d]]
    /\ atexit' = {}
    /\ last' = [Ran EXCEPT !.op = "exit", !.cleaned = DOMAIN temp \cap atexit]
    /\ UNCHANGED <<scripts, cmd, versionsFile, host64, job, removalFailed,
                   racing>>

\* ------------------------------------------------- file-system step by step
\* The same operations, one file-system call at a time: `job` holds the
\* calls the operation in progress has still to make.

NoContent == [kind |-> "none", of |-> <<>>]

\* activate writing the versions file first.
StartActivatePersistFirst(versions, allow_empty) ==
    /\ job.phase = "idle"
    /\ IF ~allow_empty /\ versions = <<>>
       THEN /\ last' = [Ran EXCEPT !.op = "activate", !.outcome = "exit 1",
                                   !.versions = versions,
                                   !.allow_empty = allow_empty]
            /\ job' = job
            /\ versionsFile' = versionsFile
       ELSE /\ last' = [Ran EXCEPT !.op = "activate", !.outcome = "running",
                                   !.versions = versions,
                                   !.allow_empty = allow_empty]
            /\ job' = [Idle EXCEPT
                          !.op = "activate", !.phase = "teardown",
                          !.steps = PublishAll(Started(EmptyDir), versions).log,
                          !.versions = versions,
                          !.text = VersionsText(versions)]
            /\ versionsFile' = [exists |-> TRUE,
                                content |-> VersionsText(versions)]
    /\ UNCHANGED <<scripts, cmd, host64, temp, atexit, removalFailed, racing>>

\* activate(versions, allow_empty=...) up to its first file-system call.
\* After the teardown the directory is empty, so the writes of the
\* publishing loop are those of PublishAll on an empty directory.
StartActivate(versions, allow_empty) ==
    /\ job.phase = "idle"
    /\ IF ~allow_empty /\ versions = <<>>
       THEN /\ last' = [Ran EXCEPT !.op = "activate", !.outcome = "exit 1",
                                   !.versions = versions,
                                   !.allow_empty = allow_empty]
            /\ job' = job
       ELSE /\ last' = [Ran EXCEPT !.op = "activate", !.outcome = "running",
                                   !.versions = versions,
                                   !.allow_empty = allow_empty]
            /\ job' = [Idle EXCEPT
                          !.op = "activate", !.phase = "teardown",
                          !.steps = PublishAll(Started(EmptyDir), versions).log,
                          !.versions = versions,
                          !.text = VersionsText(versions)]
    /\ UNCHANGED <<scripts, cmd, versionsFile, host64, temp, atexit,
                   removalFailed, racing>>

\* One p.unlink() of the teardown: iterdir() yields the entries in
\* arbitrary order.
TeardownStep ==
    /\ job.phase = "teardown"
    /\ \E p \in DOMAIN scripts : scripts' = Without(scripts, {p})
    /\ UNCHANGED <<cmd, versionsFile, host64, temp, atexit, removalFailed,
                   last, job, racing>>

\* iterdir() is exhausted: the publishing loop begins.
TeardownEnds ==
    /\ job.phase = "teardown"
    /\ scripts = EmptyDir
    /\ job' = [job EXCEPT !.phase = "publish"]
    /\ UNCHANGED <<scripts, cmd, versionsFile, host64, temp, atexit,
                   removalFailed, last, racing>>

\* One write_text or copy2 of the publishing loop of activate.
PublishStep ==
    /\ job.phase = "publish"
    /\ job.steps # <<>>
    /\ scripts' = WriteEntry(Started(scripts), Head(job.steps).entry,
                             Head(job.steps).content).dir
    /\ job' = [job EXCEPT !.steps = Tail(@)]
    /\ UNCHANGED <<cmd, versionsFile, host64, temp, atexit, removalFailed,
                   last, racing>>

\* The last statement of activate: the versions file is written.
PersistStep ==
    /\ job.phase = "publish"
    /\ job.steps = <<>>
    /\ versionsFile' = [exists |-> TRUE, content |-> job.text]
    /\ last' = [last EXCEPT !.outcome = "ok"]
    /\ job' = Idle
    /\ UNCHANGED <<scripts, cmd, host64, temp, atexit, removalFailed, racing>>

\* A p.unlink() of the teardown or a write of the publishing loop raises
\* OSError: nothing catches it, activate ends there.
RaiseStep ==
    /\ \/ job.phase = "teardown" /\ scripts # EmptyDir
       \/ job.phase = "publish" /\ job.steps # <<>>
    /\ last' = [last EXCEPT !.outcome = "OSError"]
    /\ job' = Idle
    /\ UNCHANGED <<scripts, cmd, versionsFile, host64, temp, atexit,
                   removalFailed, racing>>

\* link_commands(version) up to its first file-system call.
StartLink(version) ==
    /\ job.phase = "idle"
    /\ \E linked \in {LinkRun(EmptyDir, version)} :
           /\ job' = [Idle EXCEPT !.op = "link", !.phase = "link",
                                  !.steps = linked.log,
                                  !.outcome = linked.outcome]
           /\ last' = [Ran EXCEPT !.op = "link", !.outcome = "running",
                                  !.version = version.name]
    /\ UNCHANGED <<scripts, cmd, versionsFile, host64, temp, atexit,
                   removalFailed, racing>>

\* One write_text or copy2 of link_commands.
LinkStep ==
    /\ job.phase = "link"
    /\ job.steps # <<>>
    /\ cmd' = WriteEntry(Started(cmd), Head(job.steps).entry,
                         Head(job.steps).content).dir
    /\ job' = [job EXCEPT !.steps = Tail(@)]
    /\ UNCHANGED <<scripts, versionsFile, host64, temp, atexit, removalFailed,
                   last, racing>>

\* The paths unlink_commands hands to safe_unlink, in order.
RECURSIVE UnlinkPlan(_)
UnlinkPlan(paths) ==
    IF paths = <<>> THEN <<>>
    ELSE <<[act |-> "safe_unlink", entry |-> Head(paths),
            content |-> NoContent],
           [act |-> "safe_unlink", entry |-> WithSuffix(Head(paths), ".shim"),
            content |-> NoContent]>>
         \o UnlinkPlan(Tail(paths))

\* unlink_commands(version) up to its first file-system call.
StartUnlink(version) ==
    /\ job.phase = "idle"
    /\ job' = [Idle EXCEPT
                  !.op = "unlink", !.phase = "unlink",
                  !.steps = UnlinkPlan(PythonCommands(version.name)
                                       \o PipCommands(version.name))]
    /\ last' = [Ran EXCEPT !.op = "unlink", !.outcome = "running",
                           !.version = version.name]
    /\ UNCHANGED <<scripts, cmd, versionsFile, host64, temp, atexit,
                   removalFailed, racing>>

\* One safe_unlink(p): `fails` is whether p.unlink() raises OSError.
UnlinkStep(fails) ==
    /\ job.phase = "unlink"
    /\ job.steps # <<>>
    /\ fails => /\ Head(job.steps).entry \in DOMAIN cmd
                /\ job.failed < MaxFailures
    /\ \E after \in {SafeUnlink(Started(cmd), Head(job.steps).entry,
                                 IF fails THEN {Head(job.steps).entry}
                                 ELSE {})} :
           cmd' = after.dir
    /\ removalFailed' = (removalFailed \/ fails)
    /\ job' = [job EXCEPT !.steps = Tail(@),
                          !.failed = IF fails THEN @ + 1 ELSE @]
    /\ UNCHANGED <<scripts, versionsFile, host64, temp, atexit, last, racing>>

\* link_commands or unlink_commands returns (or link_commands raises, the
\* pip executable missing).
PinnedEnds ==
    /\ job.phase \in {"link", "unlink"}
    /\ job.steps = <<>>
    /\ last' = [last EXCEPT !.outcome = job.outcome]
    /\ job' = Idle
    /\ UNCHANGED <<scripts, cmd, versionsFile, host64, temp, atexit,
                   removalFailed, racing>>

\* ------------------------------------------- two invocations at the same time
\* Two processes run activate on the same scripts directory and versions
\* file.  Nothing locks either, so the file-system calls of the two
\* interleave in any order; each existence test sees the directory as it is
\* when the call is made.

\* What publish_version_scripts asks to publish for the files of a Scripts
\* directory, in the order of PublishScripts.
RECURSIVE ScriptsPlan(_, _)
ScriptsPlan(name, todo) ==
    IF todo = {} THEN <<>>
    ELSE LET path == CHOOSE p \in todo : TRUE
             rest == todo \ {path}
         IN  IF path.stem \in {<<"easy_install">>, <<"pip">>}
             THEN ScriptsPlan(name, rest)
             ELSE IF ScriptsOf[name].entries[path] # "file"
             THEN ScriptsPlan(name, rest)
             ELSE <<[kind |-> "file", entry |-> path,
                     of |-> Append(GetInstallation(name).scripts_dir, path)]>>
                  \o ScriptsPlan(name, rest)

\* The calls of publish_shim and publish_file one activate makes, in order.
RECURSIVE PublishPlan(_)
PublishPlan(versions) ==
    IF versions = <<>> THEN <<>>
    ELSE LET name == Head(versions).name
         IN  <<[kind |-> "shim",
                entry |-> Entry(<<"python">> \o Str(MajorVersion(name)), ".exe"),
                of |-> GetInstallation(name).python]>>
             \o (IF ScriptsOf[name].is_dir
                 THEN ScriptsPlan(name, DOMAIN ScriptsOf[name].entries)
                 ELSE <<>>)
             \o PublishPlan(Tail(versions))

\* The writes of a publish_shim or publish_file whose existence test passed.
WritesOf(call) ==
    IF call.kind = "shim"
    THEN <<[entry |-> WithSuffix(call.entry, ".shim"),
            content |-> Sidecar(call.of)],
           [entry |-> call.entry, content |-> DispatcherCopy]>>
    ELSE <<[entry |-> call.entry, content |-> FileCopy(call.of)]>>

Running(p) == racing[p].phase \notin {"idle", "done"}

\* activate(versions) begins in process p, up to its first file-system call.
RaceStart(p, versions) ==
    /\ racing[p].phase = "idle"
    /\ racing' = [racing EXCEPT ![p] =
                      IF versions = <<>>
                      THEN [NotStarted EXCEPT !.phase = "done",
                                              !.outcome = "exit 1"]
                      ELSE [NotStarted EXCEPT
                               !.phase = "list", !.versions = versions,
                               !.plan = PublishPlan(versions),
                               !.overlapped = Running(3 - p)]]
    /\ UNCHANGED <<scripts, cmd, versionsFile, host64, temp, atexit,
                   removalFailed, last, job>>

\* A teardown that finds nothing to remove.
RaceListNothing(p) ==
    /\ racing[p].phase = "list"
    /\ racing' = [racing EXCEPT ![p].phase = "publish"]
    /\ UNCHANGED <<scripts, cmd, versionsFile, host64, temp, atexit,
                   removalFailed, last, job>>

\* scripts_dir.iterdir(): the entries are listed once, as they are now.
RaceList(p) ==
    /\ racing[p].phase = "list"
    /\ racing' = [racing EXCEPT
                      ![p].listed = DOMAIN scripts,
                      ![p].phase = IF scripts = EmptyDir THEN "publish"
                                   ELSE "teardown"]
    /\ UNCHANGED <<scripts, cmd, versionsFile, host64, temp, atexit,
                   removalFailed, last, job>>

\* One p.unlink() of the teardown.  An entry the other process removed in
\* between raises FileNotFoundError, which nothing catches.
RaceUnlink(p) ==
    /\ racing[p].phase = "teardown"
    /\ \E e \in racing[p].listed :
          IF e \in DOMAIN scripts
          THEN /\ scripts' = Without(scripts, {e})
               /\ racing' = [racing EXCEPT
                                 ![p].listed = @ \ {e},
                                 ![p].phase = IF racing[p].listed = {e}
                                              THEN "publish" ELSE "teardown"]
          ELSE /\ scripts' = scripts
               /\ racing' = [racing EXCEPT ![p].phase = "done",
                                           ![p].outcome = "OSError"]
    /\ UNCHANGED <<cmd, versionsFile, host64, temp, atexit, removalFailed,
                   last, job>>

\* The existence test of the next publish_shim or publish_file.
RaceGate(p) ==
    /\ racing[p].phase = "publish"
    /\ racing[p].writes = <<>>
    /\ racing[p].plan # <<>>
    /\ racing' = [racing EXCEPT
                      ![p].plan = Tail(@),
                      ![p].writes =
                          IF Exists(Started(scripts), Head(racing[p].plan).entry)
                          THEN <<>>
                          ELSE WritesOf(Head(racing[p].plan))]
    /\ UNCHANGED <<scripts, cmd, versionsFile, host64, temp, atexit,
                   removalFailed, last, job>>

\* One write_text or copy2 of a publish whose test passed.
RaceWrite(p) ==
    /\ racing[p].phase = "publish"
    /\ racing[p].writes # <<>>
    /\ scripts' = WriteEntry(Started(scripts), Head(racing[p].writes).entry,
                             Head(racing[p].writes).content).dir
    /\ racing' = [racing EXCEPT ![p].writes = Tail(@)]
    /\ UNCHANGED <<cmd, versionsFile, host64, temp, atexit, removalFailed,
                   last, job>>

\* The last statement of activate in process p.
RacePersist(p) ==
    /\ racing[p].phase = "publish"
    /\ racing[p].writes = <<>>
    /\ racing[p].plan = <<>>
    /\ versionsFile' = [exists |-> TRUE,
                        content |-> VersionsText(racing[p].versions)]
    /\ racing' = [racing EXCEPT ![p].phase = "done", ![p].outcome = "ok"]
    /\ UNCHANGED <<scripts, cmd, host64, temp, atexit, removalFailed, last,
                   job>>

\* ---------------------------------------------------------- specifications

\* A caller passes allow_empty with an empty list; update_active_versions
\* passes it with the list that is left.
NextActivate ==
    \E versions \in VersionLists, allow_empty \in BOOLEAN :
        /\ allow_empty => versions = <<>>
        /\ Activate(versions, allow_empty)

\* activate next to the pinned linker: the same call, of lists no longer
\* than MaxBesidePinned.
NextActivateBesidePinned ==
    \E versions \in ListsUpTo(MaxBesidePinned), allow_empty \in BOOLEAN :
        /\ allow_empty => versions = <<>>
        /\ Activate(versions, allow_empty)

NextUpdate == \E remove \in SUBSET Versions : UpdateActiveVersions(remove)

NextLink == \E version \in Versions : LinkCommands(version)

NextUnlink == \E version \in Versions : UnlinkCommands(version)

NextSave ==
    \E version \in Versions, data \in Payloads, d \in DOMAIN temp :
        SaveInstallerCall(version, data, <<d, InstallerName(version.name)>>)

NextDownload ==
    \E version \in Versions, status_ok \in BOOLEAN, data \in Payloads,
       d \in 1..MaxTempDirs :
        DownloadInstaller(version, status_ok, data, d)

NextInstall ==
    \E version \in Versions, d \in DOMAIN temp, ok \in BOOLEAN :
        InstallStep(version, <<d, InstallerName(version.name)>>, ok)

\* The names a caller asks for: those of the catalog, an unknown one, and
\* each of them with the 32-bit suffix.
RequestNames ==
    LET names == CatalogNames \cup {N99}
    IN  names \cup {n \o Suffix32 : n \in names}

NextGetVersion == \E name \in RequestNames : GetVersionCall(name)

NextLookup == \E name \in RequestNames : VersionsLookup(name)

NextCheckInstalled ==
    \E version \in Versions, installed \in BOOLEAN, is_installed \in BOOLEAN,
       on_exit \in BOOLEAN :
        CheckInstalled(version, installed, is_installed, on_exit)

\* The active-set reconciler.
Next == NextActivate \/ NextUpdate

Spec == Init /\ [][Next]_vars

\* The pinned-command linker.
NextPinned == NextLink \/ NextUnlink

SpecPinned == Init /\ [][NextPinned]_vars

\* A host that runs the 64-bit installers: every name resolves to its own
\* record.  What a 32-bit host resolves is exercised under Spec and SpecCli.
InitSteps == Init /\ host64 = TRUE

\* The command namespace: the reconciler and the pinned linker together.
NextCommands == NextActivateBesidePinned \/ NextUpdate \/ NextLink \/ NextUnlink

SpecCommands == InitSteps /\ [][NextCommands]_vars

\* The pinned linker with the resolution and the precondition check its
\* callers run first.
NextCli ==
    \/ NextGetVersion
    \/ NextLookup
    \/ NextCheckInstalled
    \/ NextLink
    \/ NextUnlink

SpecCli == Init /\ [][NextCli]_vars

\* The operations on the command namespace, one file-system call at a time.
NextStartActivate ==
    \E versions \in ListsUpTo(MaxStepped), allow_empty \in BOOLEAN :
        /\ allow_empty => versions = <<>>
        /\ StartActivate(versions, allow_empty)

\* The versions the pinned linker is called for, call by call.
PinnedStepped ==
    LET order == <<N36, N27, N36x32>>
    IN  {VersionsGetVersion(order[i]) :
            i \in 1..(IF MaxPinnedStepped < 3 THEN MaxPinnedStepped ELSE 3)}

NextStartLink == \E version \in PinnedStepped : StartLink(version)

NextStartUnlink == \E version \in PinnedStepped : StartUnlink(version)

NextUnlinkStep == \E fails \in BOOLEAN : UnlinkStep(fails)

\* activate from call to call, where any call can raise.
NextRebuildSteps ==
    \/ NextStartActivate
    \/ TeardownStep
    \/ TeardownEnds
    \/ PublishStep
    \/ PersistStep
    \/ RaiseStep

SpecRebuildSteps == Init /\ [][NextRebuildSteps]_vars

\* activate and the pinned linker from call to call: every state is a
\* point where the process can stop.
NextSteps ==
    \/ NextStartActivate
    \/ TeardownStep
    \/ TeardownEnds
    \/ PublishStep
    \/ PersistStep
    \/ NextStartLink
    \/ LinkStep
    \/ NextStartUnlink
    \/ NextUnlinkStep
    \/ PinnedEnds

SpecSteps == InitSteps /\ [][NextSteps]_vars

\* Two processes, each running activate once.
NextRaceStart ==
    \E p \in 1..2, versions \in ListsUpTo(MaxRacing) : RaceStart(p, versions)

NextRaceList == \E p \in 1..2 : RaceList(p)

NextRaceUnlink == \E p \in 1..2 : RaceUnlink(p)

NextRaceGate == \E p \in 1..2 : RaceGate(p)

NextRaceWrite == \E p \in 1..2 : RaceWrite(p)

NextRacePersist == \E p \in 1..2 : RacePersist(p)

NextRace ==
    \/ NextRaceStart
    \/ NextRaceList
    \/ NextRaceUnlink
    \/ NextRaceGate
    \/ NextRaceWrite
    \/ NextRacePersist

SpecRace == InitSteps /\ [][NextRace]_vars

\* Downloading and saving installers.
NextInstaller == NextDownload \/ NextSave \/ NextInstall \/ ProcessExit

SpecInstaller == Init /\ [][NextInstaller]_vars

\* The same, in a process that ends: the interpreter runs the registered
\* exit functions when it does.
SpecInstallerEnds == SpecInstaller /\ WF_vars(ProcessExit)

\* ------------------------------------------------------------------ claims

SaveRan(ran) ==
    \/ ran.op = "save"
    \/ ran.op = "download" /\ ran.outcome # "HTTPError"

\* C1: save_installer completes normally exactly when the md5 of the payload
\* equals the checksum of the descriptor, and then the target holds the
\* payload; on a mismatch it raises DownloadIntegrityError and the target
\* path is as it was before the call: not created, not modified.
C1_SaveIntegrity ==
    [][SaveRan(last') =>
        LET matches == Md5(last'.data) = VersionsDir[last'.version].md5_sum
        IN  /\ (last'.outcome = "none") <=> matches
            /\ matches => FileAt(temp', last'.path) = <<"file", last'.data>>
            /\ ~matches =>
                  /\ last'.outcome = "DownloadIntegrityError"
                  /\ FileAt(temp', last'.path) = FileAt(temp, last'.path)]_vars

\* A save that raised while an earlier installer was at the target path.
C1_Witness ==
    /\ last.op = "save"
    /\ last.outcome = "DownloadIntegrityError"
    /\ FileAt(temp, last.path) # <<"absent">>
    /\ FileAt(temp, last.path) # <<"file", last.data>>

\* What one version publishes into an empty directory.
Alone(version) == PublishVersionScripts(Started(EmptyDir), version, FALSE).dir

Offers(version, entry) == entry \in DOMAIN Alone(version)

\* The last operation rebuilt the scripts directory for last.versions.
Rebuilt ==
    \/ last.op = "activate" /\ last.outcome = "ok"
    \/ last.op = "update" /\ last.outcome = "activated"

FirstOffering(versions, entry) ==
    versions[CHOOSE i \in DOMAIN versions :
                /\ Offers(versions[i], entry)
                /\ \A j \in 1..(i - 1) : ~Offers(versions[j], entry)]

\* C2: after a rebuild for a list of versions, every entry some version of
\* the list offers is the one published for the earliest version of the
\* list offering it, and the rebuild wrote that entry once, for that
\* version: no later version wrote it.
C2_FirstVersionWins ==
    Rebuilt =>
        \A i \in DOMAIN last.versions :
            \A entry \in DOMAIN Alone(last.versions[i]) :
                LET first == FirstOffering(last.versions, entry)
                    writes == SelectSeq(last.log,
                                  LAMBDA e : e.act = "write" /\ e.entry = entry)
                IN  /\ entry \in DOMAIN scripts
                    /\ scripts[entry] = Alone(first)[entry]
                    /\ Len(writes) = 1
                    /\ writes[1].content = Alone(first)[entry]

\* A rebuild for two versions that offer a common command, each its own.
C2_Witness ==
    /\ last.op = "activate"
    /\ last.outcome = "ok"
    /\ Len(last.versions) = 2
    /\ \E entry \in DOMAIN Alone(last.versions[1]) :
          /\ entry.suffix = ".exe"
          /\ Offers(last.versions[2], entry)
          /\ Alone(last.versions[2])[entry] # Alone(last.versions[1])[entry]

\* Every dispatcher copy of a directory has its sidecar next to it, and
\* every sidecar its dispatcher copy.
Paired(dir) ==
    /\ \A e \in DOMAIN dir :
          dir[e].kind = "dispatcher" =>
              /\ WithSuffix(e, ".shim") \in DOMAIN dir
              /\ dir[WithSuffix(e, ".shim")].kind = "sidecar"
    /\ \A e \in DOMAIN dir :
          dir[e].kind = "sidecar" =>
              /\ WithSuffix(e, ".exe") \in DOMAIN dir
              /\ dir[WithSuffix(e, ".exe")].kind = "dispatcher"

C4_ActivateIdempotent ==
    [][(/\ last.op = "activate"
        /\ last.outcome = "ok"
        /\ last'.op = "activate"
        /\ last'.versions = last.versions
        /\ last'.allow_empty = last.allow_empty)
       => /\ last'.outcome = "ok"
          /\ scripts' = scripts
          /\ versionsFile' = versionsFile]_vars

\* A second activate of the same list of two versions.
C4_Witness ==
    /\ last.op = "activate"
    /\ last.outcome = "ok"
    /\ last.again
    /\ Len(last.versions) = 2
    /\ last.versions[1] # last.versions[2]
    /\ last.log # <<>>

\* C5: when no version to remove is named in the versions file (nothing to
\* remove and a missing file included), update_active_versions does not
\* call activate: it writes and deletes nothing in the scripts directory
\* and leaves the versions file as it was.
C5_UpdateNoOp ==
    [][(/\ last'.op = "update"
        /\ last'.remove \cap Range(GetActiveNames(versionsFile)) = {})
       => /\ last'.outcome = "unchanged"
          /\ last'.log = <<>>
          /\ scripts' = scripts
          /\ versionsFile' = versionsFile]_vars

\* An update asked to remove a version that is not active, other versions
\* being active.
C5_Witness ==
    /\ last.op = "update"
    /\ last.outcome = "unchanged"
    /\ last.remove # {}
    /\ GetActiveNames(versionsFile) # <<>>
    /\ last.remove \cap Range(GetActiveNames(versionsFile)) = {}
    /\ scripts # EmptyDir

\* C6: activate of an empty list without allow_empty exits with status 1
\* before the teardown: the scripts directory and the versions file stay
\* as they were and nothing is written.
C6_EmptyActivateFails ==
    [][(/\ last'.op = "activate"
        /\ last'.versions = <<>>
        /\ ~last'.allow_empty)
       => /\ last'.outcome = "exit 1"
          /\ last'.log = <<>>
          /\ scripts' = scripts
          /\ versionsFile' = versionsFile]_vars

\* The failing activate met a populated scripts directory and left it.
C6_Witness ==
    /\ last.op = "activate"
    /\ last.versions = <<>>
    /\ ~last.allow_empty
    /\ last.outcome = "exit 1"
    /\ scripts # EmptyDir
    /\ GetActiveNames(versionsFile) # <<>>

\* The last operation ran activate with an empty list and allow_empty.
ActivatedEmpty ==
    \/ last.op = "activate" /\ last.versions = <<>> /\ last.allow_empty
    \/ last.op = "update" /\ last.outcome = "activated" /\ last.versions = <<>>

\* C7: after activate of an empty list with allow_empty, the scripts
\* directory has no entry and get_active_names returns the empty sequence.
C7_EmptyActivateClears ==
    ActivatedEmpty =>
        /\ scripts = EmptyDir
        /\ versionsFile.exists
        /\ versionsFile.content = <<>>
        /\ GetActiveNames(versionsFile) = <<>>

\* The last active version was removed: activate of an empty list met the
\* entries of the activation before it.
C7_Witness ==
    /\ last.op = "update"
    /\ last.outcome = "activated"
    /\ last.versions = <<>>
    /\ last.remove # {}
    /\ scripts = EmptyDir

\* C8: after a successful activate, get_active_names returns the names of
\* the activated versions, as many and in the same order.
C8_NamesRoundTrip ==
    (last.op = "activate" /\ last.outcome = "ok") =>
        GetActiveNames(versionsFile) =
            [i \in DOMAIN last.versions |-> last.versions[i].name]

\* A list of two different versions was activated and read back.
C8_Witness ==
    /\ last.op = "activate"
    /\ last.outcome = "ok"
    /\ Len(last.versions) = 2
    /\ last.versions[1].name # last.versions[2].name
    /\ Len(GetActiveNames(versionsFile)) = 2

\* C9: every name in the versions file is the name of a version of the
\* catalog: the lookup of it does not raise VersionNotFoundError.
C9_ActiveNamesResolve ==
    \A n \in Range(GetActiveNames(versionsFile)) :
        VersionsGetVersion(n).raised = "none"

\* An update rewrote the versions file with the versions it kept.
C9_Witness ==
    /\ last.op = "update"
    /\ last.outcome = "activated"
    /\ last.versions # <<>>
    /\ GetActiveNames(versionsFile) # <<>>

\* The entries of the log of an operation with the given act.
Logged(log, act) == {log[i].entry : i \in {j \in DOMAIN log : log[j].act = act}}

\* C10: unlink_commands completes without raising; it removes nothing when
\* no declared command or sidecar is present; every declared entry that is
\* present is attempted, a failed removal is logged and leaves its entry,
\* and every other declared entry is absent afterwards; the entries of
\* other versions stay.
C10_UnlinkTolerance ==
    [][last'.op = "unlink" =>
          LET declared == Declared([name |-> last'.version])
              failed == Logged(last'.log, "unlink failed")
          IN  /\ last'.outcome = "ok"
              /\ (declared \cap DOMAIN cmd = {}) =>
                     (cmd' = cmd /\ last'.log = <<>>)
              /\ Logged(last'.log, "unlink") \cup failed
                     = declared \cap DOMAIN cmd
              /\ \A p \in declared \ failed : p \notin DOMAIN cmd'
              /\ \A p \in failed : p \in DOMAIN cmd' /\ cmd'[p] = cmd[p]
              /\ \A p \in DOMAIN cmd \ declared :
                     p \in DOMAIN cmd' /\ cmd'[p] = cmd[p]]_vars

\* A removal failed and a later declared entry was removed all the same.
C10_Witness ==
    /\ last.op = "unlink"
    /\ \E i, j \in DOMAIN last.log :
          /\ i < j
          /\ last.log[i].act = "unlink failed"
          /\ last.log[j].act = "unlink"
    /\ \E e \in DOMAIN cmd : e \notin Declared([name |-> last.version])

C13_CatalogResolve ==
    last.op = "lookup" =>
        IF last.version \in DOMAIN VersionsDir
        THEN /\ last.outcome = "none"
             /\ last.resolved.name = last.version
             /\ VersionsDir[last.version].installer_type = "cpython_msi"
                    => last.resolved.klass = "CPythonMSIVersion"
             /\ VersionsDir[last.version].installer_type = "cpython"
                    => last.resolved.klass = "CPythonVersion"
        ELSE last.outcome = "VersionNotFoundError"

\* The MSI entry of the catalog was looked up.
C13_Witness ==
    /\ last.op = "lookup"
    /\ last.version = N27
    /\ last.outcome = "none"
    /\ last.resolved.klass = "CPythonMSIVersion"

\* C14: check_installed returns exactly when is_installed() equals the flag
\* expected; otherwise it echoes 'already installed' (expected absent) or
\* 'not installed' (expected present), calls on_exit when one is given and
\* exits with 1.
C14_CheckInstalled ==
    last.op = "check_installed" =>
        LET c == last.check
        IN  /\ (last.outcome = "ok") <=> (c.is_installed = c.installed)
            /\ last.outcome = "ok" => (c.message = "" /\ ~c.called)
            /\ last.outcome # "ok" =>
                   /\ last.outcome = "exit 1"
                   /\ c.installed => c.message = "is not installed."
                   /\ ~c.installed => c.message = "is already installed."
                   /\ c.called = c.on_exit

\* An installed version met the check of an install, with a callback.
C14_Witness ==
    /\ last.op = "check_installed"
    /\ last.check.is_installed
    /\ ~last.check.installed
    /\ last.check.on_exit
    /\ last.check.called
    /\ last.outcome = "exit 1"

\* The names of a list that are not among those to remove, in the order of
\* the list.
NamesLeft(names, remove) == SelectSeq(names, LAMBDA n : n \notin remove)

\* A sequence that lists nothing twice.
ListedOnce(names) ==
    \A i, j \in DOMAIN names : names[i] = names[j] => i = j

\* C15 as stated, already where no name is substituted (a host that runs
\* 64-bit binaries) and the versions file names each version once: when
\* update_active_versions changes the membership, the list it hands to
\* activate and the list persisted are the names persisted before, without
\* the names to remove and otherwise in the same order.
C15_UpdateKeepsOrder ==
    [][(/\ last'.op = "update"
        /\ last'.outcome = "activated"
        /\ host64
        /\ ListedOnce(GetActiveNames(versionsFile))) =>
          LET kept == NamesLeft(GetActiveNames(versionsFile), last'.remove)
          IN  /\ [i \in DOMAIN last'.versions |-> last'.versions[i].name] = kept
              /\ GetActiveNames(versionsFile') = kept]_vars

\* What the scripts directory holds once a list of versions is published.
Published(versions) == PublishAll(Started(EmptyDir), versions).dir

NamesOf(versions) == [i \in DOMAIN versions |-> versions[i].name]

\* A rebuild is under way and something of its list is not yet in place.
Unfinished ==
    /\ job.op = "activate"
    /\ \E p \in DOMAIN Published(job.versions) :
          p \notin DOMAIN scripts \/ scripts[p] # Published(job.versions)[p]

\* C16 as stated: in no state within activate(L) does the versions file
\* name L while a version of L is still unpublished.
C16_NeverNamesUnpublished ==
    Unfinished => GetActiveNames(versionsFile) # NamesOf(job.versions)

\* C16: within activate the versions file is written by the last call only,
\* after the teardown and after everything of the list is published: until
\* then, and when a deletion or a publish raises, it keeps the content it
\* had before the call (which names the list when the list was active
\* already).
C16_PersistedLast ==
    [][/\ versionsFile' # versionsFile =>
              /\ job.op = "activate"
              /\ job.steps = <<>>
              /\ scripts = Published(job.versions)
              /\ scripts' = scripts
              /\ GetActiveNames(versionsFile') = NamesOf(job.versions)
              /\ last'.outcome = "ok"
       /\ last'.outcome = "OSError" => versionsFile' = versionsFile
       /\ (job.op = "activate" /\ job'.op = "activate") =>
              versionsFile' = versionsFile]_vars

\* A rebuild for another list raised after publishing part of it: the
\* versions file still names the list active before.
C16_Witness ==
    /\ last.op = "activate"
    /\ last.outcome = "OSError"
    /\ last.versions # <<>>
    /\ GetActiveNames(versionsFile) # <<>>
    /\ GetActiveNames(versionsFile) # NamesOf(last.versions)
    /\ scripts # EmptyDir
    /\ scripts # Published(last.versions)
    /\ DOMAIN scripts \subseteq DOMAIN Published(last.versions)

\* C17: after a successful rebuild for a list of versions, the entries of
\* the scripts directory are exactly the entries this rebuild wrote, each
\* one offered by a version of the list and holding what that version
\* publishes: nothing of an earlier activation, and nothing of a version
\* outside the list, remains.
C17_OnlyThisRebuild ==
    Rebuilt =>
        /\ DOMAIN scripts = Logged(last.log, "write")
        /\ scripts = Published(last.versions)
        /\ \A entry \in DOMAIN scripts :
              \E i \in DOMAIN last.versions :
                  /\ Offers(last.versions[i], entry)
                  /\ scripts[entry] = Alone(last.versions[i])[entry]

\* A rebuild for a non-empty list after a version was removed from the
\* active ones: what only the removed version offered is gone.
C17_Witness ==
    /\ last.op = "update"
    /\ last.outcome = "activated"
    /\ last.versions # <<>>
    /\ \E name \in last.remove :
          \E entry \in DOMAIN Alone(VersionsGetVersion(name)) :
              /\ entry \notin DOMAIN scripts
              /\ \A i \in DOMAIN last.versions :
                    ~Offers(last.versions[i], entry)

\* Every dispatcher copy of a directory has its sidecar next to it.
HasSidecars(dir) ==
    \A e \in DOMAIN dir :
        dir[e].kind = "dispatcher" =>
            /\ WithSuffix(e, ".shim") \in DOMAIN dir
            /\ dir[WithSuffix(e, ".shim")].kind = "sidecar"

Unversioned == {<<"easy_install">>, <<"pip">>}

\* The regular files of the Scripts directory of a version, the unversioned
\* entry points left out.
OtherFiles(name) ==
    IF ScriptsOf[name].is_dir
    THEN {p \in DOMAIN ScriptsOf[name].entries :
             /\ ScriptsOf[name].entries[p] = "file"
             /\ p.stem \notin Unversioned}
    ELSE {}

\* The copy of a file of the Scripts directory of a version.
CopyOf(name, path) == FileCopy(Append(GetInstallation(name).scripts_dir, path))

InterpreterCommand(name) == Entry(<<"python">> \o Str(MajorVersion(name)), ".exe")

\* C19 as stated: after a rebuild no entry of the scripts directory has the
\* stem pip or easy_install, and every other regular file of the Scripts
\* directory of a version of the list, whose name no earlier version of the
\* list claimed, is in the scripts directory.
C19_EveryOtherFilePublished ==
    Rebuilt =>
        /\ \A entry \in DOMAIN scripts : entry.stem \notin Unversioned
        /\ \A i \in DOMAIN last.versions :
              \A path \in OtherFiles(last.versions[i].name) :
                  (\A j \in 1..(i - 1) : ~Offers(last.versions[j], path)) =>
                      /\ path \in DOMAIN scripts
                      /\ scripts[path] = CopyOf(last.versions[i].name, path)

\* C19: after a rebuild no entry of the scripts directory has the stem pip
\* or easy_install, and every other regular file of the Scripts directory of
\* a version of the list is in the scripts directory when no earlier version
\* of the list claimed its name and the name is neither that of the
\* version's own interpreter command nor that of the sidecar of a version
\* of the list.
C19_UnversionedLeftOut ==
    Rebuilt =>
        /\ \A entry \in DOMAIN scripts : entry.stem \notin Unversioned
        /\ \A i \in DOMAIN last.versions :
              \A path \in OtherFiles(last.versions[i].name) :
                  (/\ \A j \in 1..(i - 1) : ~Offers(last.versions[j], path)
                   /\ path # InterpreterCommand(last.versions[i].name)
                   /\ \A j \in DOMAIN last.versions :
                         path # WithSuffix(
                                    InterpreterCommand(last.versions[j].name),
                                    ".shim")) =>
                      /\ path \in DOMAIN scripts
                      /\ scripts[path] = CopyOf(last.versions[i].name, path)

\* A rebuild for two versions whose Scripts directories both hold pip.exe,
\* and a common file that the first one claims: the file of the second one
\* that nobody claimed is published, pip.exe is not.
C19_Witness ==
    /\ last.op = "activate"
    /\ last.outcome = "ok"
    /\ Len(last.versions) = 2
    /\ \A i \in 1..2 :
          Entry(<<"pip">>, ".exe") \in DOMAIN ScriptsOf[last.versions[i].name].entries
    /\ Entry(<<"pip">>, ".exe") \notin DOMAIN scripts
    /\ \E path \in OtherFiles(last.versions[2].name) :
          /\ Offers(last.versions[1], path)
          /\ scripts[path] = CopyOf(last.versions[1].name, path)
    /\ \E path \in OtherFiles(last.versions[2].name) \cap DOMAIN scripts :
          /\ ~Offers(last.versions[1], path)
          /\ scripts[path] = CopyOf(last.versions[2].name, path)

\* C20: link_commands and unlink_commands leave the versions file and every
\* entry of the scripts directory as they are, and activate and
\* update_active_versions leave every pinned command and sidecar as it is.
C20_PinnedIndependent ==
    [][/\ last'.op \in {"link", "unlink"} =>
              /\ scripts' = scripts
              /\ versionsFile' = versionsFile
       /\ last'.op \in {"activate", "update"} => cmd' = cmd]_vars

\* A version was linked and activated, and is then removed from the active
\* ones: the scripts directory was rebuilt without it, and its pinned
\* command is still there, its sidecar naming the interpreter of that
\* version.
C20_Witness ==
    /\ last.op = "update"
    /\ last.outcome = "activated"
    /\ \E name \in last.remove :
          LET command == PythonCommands(name)[1]
          IN  /\ name \notin Range(GetActiveNames(versionsFile))
              /\ InterpreterCommand(name) \notin DOMAIN scripts
              /\ command \in DOMAIN cmd
              /\ cmd[command] = DispatcherCopy
              /\ WithSuffix(command, ".shim") \in DOMAIN cmd
              /\ cmd[WithSuffix(command, ".shim")] =
                     Sidecar(GetInstallation(name).python)

\* Both invocations of activate have ended.
AllEnded == \A p \in 1..2 : racing[p].phase = "done"

\* What activate(versions) alone leaves: the versions file names the list
\* and the scripts directory is the rebuild of it.
LeftBy(versions) ==
    /\ GetActiveNames(versionsFile) = NamesOf(versions)
    /\ scripts = Published(versions)

\* C21: two invocations of activate can end with the versions file naming
\* one list and the scripts directory differing from the rebuild of that
\* list, and it takes the interleaving to get there: when neither began
\* while the other was running, the state they end in is the one the last
\* activate that returned leaves alone.  With or without interleaving, the
\* versions file names the list of an invocation that returned.
C21_InterleavingBreaksRebuild ==
    AllEnded =>
        /\ versionsFile.exists =>
               \E p \in 1..2 :
                   /\ racing[p].outcome = "ok"
                   /\ GetActiveNames(versionsFile) = NamesOf(racing[p].versions)
        /\ (\A p \in 1..2 : ~racing[p].overlapped) =>
               IF \E p \in 1..2 : racing[p].outcome = "ok"
               THEN \E p \in 1..2 :
                        racing[p].outcome = "ok" /\ LeftBy(racing[p].versions)
               ELSE scripts = EmptyDir /\ ~versionsFile.exists

\* Two interleaved invocations with different lists both returned: the
\* versions file names the list of one, and the scripts directory holds a
\* command of a version of the other list, which the rebuild of the list
\* named would not hold.
C21_Witness ==
    /\ AllEnded
    /\ \A p \in 1..2 : racing[p].outcome = "ok"
    /\ racing[1].versions # racing[2].versions
    /\ \E p \in 1..2 :
          /\ GetActiveNames(versionsFile) = NamesOf(racing[p].versions)
          /\ \E e \in DOMAIN scripts :
                /\ e \notin DOMAIN Published(racing[p].versions)
                /\ e \in DOMAIN Published(racing[3 - p].versions)

\* The other way round: a command of the list named is missing.
C21_MissingCommand ==
    /\ AllEnded
    /\ \A p \in 1..2 : racing[p].outcome = "ok"
    /\ racing[1].versions # racing[2].versions
    /\ \E p \in 1..2 :
          /\ GetActiveNames(versionsFile) = NamesOf(racing[p].versions)
          /\ \E e \in DOMAIN Published(racing[p].versions) :
                e \notin DOMAIN scripts

====
